---- MODULE Spec2Model ----
(***************************************************************************)
(* TransFlix (src/main.py): the transcription / translation / burn         *)
(* pipeline of ProcessVideo, Translator, MainWindow and PreviewWindow,     *)
(* as a state machine.                                                      *)
(*                                                                          *)
(* Times are integers in units of 0.1 ms (10000 units = 1 s); word         *)
(* confidences are integers in percent (0.6 = 60).  Paths are strings.     *)
(* None is the empty string where the code only tests truthiness.          *)
(***************************************************************************)
EXTENDS Integers, Sequences, FiniteSets, TLC

VARIABLES
    fs,             \* the filesystem: path -> file content, for the files that exist
    video_path,     \* MainWindow.video_path ("" is None)
    save_dir,       \* MainWindow.save_dir
    button_process, \* MainWindow.button_process.isEnabled()
    mainVisible,    \* MainWindow is shown
    proc,           \* the run_processing thread and its ProcessVideo job
    sigQ,           \* signals emitted by the threads, queued to the GUI thread
    preview,        \* the PreviewWindow
    guiPc,          \* position of the GUI thread inside start_burning
    burn,           \* the run_burning thread and its ProcessVideo job
    app,            \* "running", "aborted" by an exception in a slot, or "quit"
    stage,          \* pipeline stage of the current job (section 4.7 names)
    failed,         \* stage in which the current job raised, "" if none
    errors,         \* error dialogs shown for the current job
    successes,      \* success dialogs shown for the current job
    job,            \* number of jobs started so far
    fmtIn,          \* _format_timestamp: argument
    fmtOut          \* _format_timestamp: result ("" before the call)

vars == <<fs, video_path, save_dir, button_process, mainVisible, proc, sigQ,
          preview, guiPc, burn, app, stage, failed, errors, successes, job,
          fmtIn, fmtOut>>

pipeVars == <<fs, video_path, save_dir, button_process, mainVisible, proc, sigQ,
              preview, guiPc, burn, app, stage, failed, errors, successes, job>>

fmtVars == <<fmtIn, fmtOut>>

-----------------------------------------------------------------------------
(* Bounds *)

\* start_processing clicks in one behaviour
MaxRuns == 2

\* start_burning clicks in one behaviour
MaxBurns == 2

\* non-empty reads of the WAV in one transcription, in the pipeline
PipeChunks == 1

\* non-empty reads of the WAV in one transcription, in the transcription's own
\* specification
MaxChunks == 3

\* largest sub-second part of a _format_timestamp argument, in 0.1 ms units
MaxFrac == 9999

-----------------------------------------------------------------------------
(* Strings and paths *)

RECURSIVE LastIndexOf(_, _, _)
\* str.rfind(c) over s[1..i]; 0 when c does not occur
LastIndexOf(s, c, i) ==
    IF i = 0 THEN 0
    ELSE IF SubSeq(s, i, i) = c THEN i
    ELSE LastIndexOf(s, c, i - 1)

\* os.path.basename
Basename(p) == SubSeq(p, LastIndexOf(p, "/", Len(p)) + 1, Len(p))

\* os.path.join(dir, name)
PathJoin(dir, name) == dir \o "/" \o name

\* os.path.basename(self.video)[:-4]
BaseName(video) == SubSeq(Basename(video), 1, Len(Basename(video)) - 4)

\* pathlib.Path(p).suffix
PathSuffix(p) ==
    LET n == Basename(p)
        i == LastIndexOf(n, ".", Len(n))
    IN  IF i <= 1 THEN "" ELSE SubSeq(n, i, Len(n))

\* pathlib.Path(p).stem
PathStem(p) ==
    LET n == Basename(p)
    IN  SubSeq(n, 1, Len(n) - Len(PathSuffix(p)))

\* the working .wav of a job: extract_audio's output_file, retrieve_text's wav_file
WavFile(video, video_dir) == PathJoin(video_dir, BaseName(video) \o ".wav")

\* the working .srt of a job: _save_srt's srt_file
SrtFile(video, video_dir) == PathJoin(video_dir, BaseName(video) \o ".srt")

\* start_burning's output_path
OutputPath(video, dir) ==
    PathJoin(dir, PathStem(video) \o "_subtitled" \o PathSuffix(video))

-----------------------------------------------------------------------------
(* The filesystem *)

\* os.path.exists
Exists(f, p) == p \in DOMAIN f

\* open(p, "w").write(c) and the transcoder's overwrite_output
WriteFile(f, p, c) == [q \in DOMAIN f \cup {p} |-> IF q = p THEN c ELSE f[q]]

\* os.remove of an existing file
OsRemove(f, p) == [q \in DOMAIN f \ {p} |-> f[q]]

File(kind, body, lang, edited) ==
    [kind |-> kind, body |-> body, lang |-> lang, edited |-> edited]

VideoFile == File("video", <<>>, "", FALSE)
WavData   == File("wav", <<>>, "", FALSE)
Mp4Out    == File("mp4", <<>>, "", FALSE)

-----------------------------------------------------------------------------
(* ProcessVideo._format_timestamp *)

RECURSIVE ZeroPad(_, _)
\* the width-w, zero-filled rendering of a digit string
ZeroPad(s, w) == IF Len(s) >= w THEN s ELSE ZeroPad("0" \o s, w)

\* f"{n:02d}" and the like: at least w digits, more when n needs them
FormatInt(n, w) == ZeroPad(ToString(n), w)

\* The ".3f" conversion of secs (0.1 ms units): the nearest whole millisecond.
\* Half a millisecond is decided by the float's binary value, which the decimal
\* input does not fix: tieUp is the outcome the float arithmetic produces.
RoundToMs(secs, tieUp) ==
    LET q == secs \div 10
        r == secs % 10
    IN  IF r > 5 \/ (r = 5 /\ tieUp) THEN q + 1 ELSE q

\* f"{secs:06.3f}": total width 6, zero-filled, 3 decimals
FormatFixed3(secs, tieUp) ==
    LET ms == RoundToMs(secs, tieUp)
    IN  ZeroPad(ToString(ms \div 1000) \o "." \o FormatInt(ms % 1000, 3), 6)

RECURSIVE StrReplace(_, _, _)
\* str.replace(a, b) for one-character a
StrReplace(s, a, b) ==
    IF Len(s) = 0 THEN ""
    ELSE (IF SubSeq(s, 1, 1) = a THEN b ELSE SubSeq(s, 1, 1))
         \o StrReplace(SubSeq(s, 2, Len(s)), a, b)

\* ProcessVideo._format_timestamp(seconds), seconds in 0.1 ms units
FormatTimestamp(seconds, tieUp) ==
    LET hours   == seconds \div 36000000
        minutes == (seconds % 36000000) \div 600000
        secs    == seconds % 600000
    IN  StrReplace(FormatInt(hours, 2) \o ":" \o FormatInt(minutes, 2) \o ":"
                   \o FormatFixed3(secs, tieUp), ".", ",")

-----------------------------------------------------------------------------
(* ProcessVideo.retrieve_text: one recognizer result *)

\* ProcessVideo.confidence, in percent
confidence == 60

Word(w, c, s, e) == [word |-> w, conf |-> c, start |-> s, end |-> e]

\* the filter with >= for >
KeepWordAtThreshold(w) == w.conf >= confidence

\* the filter of the list comprehension: word["conf"] > self.confidence
KeepWord(w) == w.conf > confidence

RECURSIVE JoinSpace(_)
\* " ".join(strs)
JoinSpace(strs) ==
    IF Len(strs) = 0 THEN ""
    ELSE IF Len(strs) = 1 THEN strs[1]
    ELSE strs[1] \o " " \o JoinSpace(Tail(strs))

\* [word["word"] for word in words if word["conf"] > self.confidence]
KeptWords(words) ==
    LET kept == SelectSeq(words, KeepWord)
    IN  [i \in 1..Len(kept) |-> kept[i].word]

\* the cue appended for a non-empty word list (the f-string of line 116, by field)
MakeCue(index, words) ==
    [index |-> index,
     start |-> FormatTimestamp(words[1].start, FALSE),
     end   |-> FormatTimestamp(words[Len(words)].end, FALSE),
     text  |-> JoinSpace(KeptWords(words))]

\* A recognizer outcome for one chunk: final is AcceptWaveform's return value,
\* hasResult is '"result" in result', words is result["result"]. When final is
\* FALSE, words are the words the recognizer has decoded from the chunk and
\* holds back until it finalizes the segment.
Result(final, hasResult, words) ==
    [final |-> final, hasResult |-> hasResult, words |-> words]

\* recognizer.AcceptWaveform(data) and recognizer.Result() with the words in
\* pending held back from earlier chunks: a finalized segment carries them first
Recognize(pending, r) ==
    IF r.final /\ pending # <<>>
    THEN Result(TRUE, TRUE, pending \o r.words)
    ELSE r

\* the words the recognizer holds back after the chunk answered by r
Pending(pending, r) == IF r.final THEN <<>> ELSE pending \o r.words

\* the chunk loop with "subtitles_index += 1" outside "if words:"
AcceptWaveformStepCountsEmpty(st, r) ==
    IF r.final /\ r.hasResult
    THEN [subtitles       |-> IF Len(r.words) > 0
                              THEN Append(st.subtitles,
                                          MakeCue(st.subtitles_index, r.words))
                              ELSE st.subtitles,
          subtitles_index |-> st.subtitles_index + 1]
    ELSE st

\* the chunk loop with subtitles.insert(0, ...) for subtitles.append(...)
AcceptWaveformStepInsertsFirst(st, r) ==
    IF r.final /\ r.hasResult /\ Len(r.words) > 0
    THEN [subtitles       |-> <<MakeCue(st.subtitles_index, r.words)>> \o st.subtitles,
          subtitles_index |-> st.subtitles_index + 1]
    ELSE st

\* the body of the chunk loop after a non-empty read: st is
\* [subtitles, subtitles_index], r the recognizer's outcome
AcceptWaveformStep(st, r) ==
    IF r.final /\ r.hasResult /\ Len(r.words) > 0
    THEN [subtitles       |-> Append(st.subtitles, MakeCue(st.subtitles_index, r.words)),
          subtitles_index |-> st.subtitles_index + 1]
    ELSE st

-----------------------------------------------------------------------------
(* Inputs *)

\* the videos the user can pick in select_video
Videos == {"/v/a.mp4", "/v/b.mp4"}

\* the directory the user can pick in select_folder, which is the default
DefaultSaveDir == "/docs"

Dirs == {DefaultSaveDir}

\* str(e) of the exceptions run_burning can catch
BurnErrors == {"ffmpeg error (see stderr output for detail)", ""}

\* the spec's example group (confidences 0.9, 0.5, 0.7), at offset t
GroupMixed(t) ==
    <<Word("un", 90, t, t + 3000), Word("deux", 50, t + 3000, t + 6000),
      Word("trois", 70, t + 6000, t + 9000)>>

\* one word exactly at the threshold
GroupAtThreshold(t) == <<Word("un", 60, t, t + 4000)>>

\* every word below the threshold
GroupLow(t) == <<Word("deux", 50, t, t + 2000), Word("trois", 30, t + 2000, t + 5000)>>

\* two words above the threshold
GroupHigh(t) == <<Word("un", 61, t, t + 2000), Word("deux", 100, t + 2000, t + 5000)>>

NotFinal == Result(FALSE, FALSE, <<>>)

\* AcceptWaveform returns False with a word decoded and held back
NotFinalWord(t) == Result(FALSE, FALSE, <<Word("quatre", 80, t, t + 2000)>>)
NoWordList == Result(TRUE, FALSE, <<>>)
EmptyWordList == Result(TRUE, TRUE, <<>>)

\* start time of the n-th read: 4000 frames at 16 kHz are 2500 units
ChunkStart(n) == n * 2500

\* what the recognizer can answer to the n-th read, in the pipeline
PipeResults ==
    [n \in 0..PipeChunks |-> {NotFinal, Result(TRUE, TRUE, GroupMixed(ChunkStart(n)))}]

\* what the recognizer can answer to the n-th read, in the transcription's own
\* specification
AllResults ==
    [n \in 0..MaxChunks |->
        {NotFinal, NotFinalWord(ChunkStart(n)), NoWordList, EmptyWordList}
        \cup {Result(TRUE, TRUE, g) :
                g \in {GroupMixed(ChunkStart(n)), GroupAtThreshold(ChunkStart(n)),
                       GroupLow(ChunkStart(n)), GroupHigh(ChunkStart(n))}}]

-----------------------------------------------------------------------------
(* State *)

NoThreadP ==
    [pc |-> "idle", n |-> 0, video |-> "", dir |-> "", missing |-> FALSE,
     invoked |-> {}, subtitles |-> <<>>, subtitles_index |-> 1,
     heard |-> <<>>, reads |-> 0, pending |-> <<>>]

NoThreadB ==
    [pc |-> "idle", n |-> 0, video |-> "", srt_path |-> "", video_dir |-> "",
     missing |-> FALSE, invoked |-> {}, ok |-> FALSE]

NoText == File("text", <<>>, "", FALSE)

NoPreview ==
    [exists |-> FALSE, visible |-> FALSE, video_path |-> "", srt_path |-> "",
     save_dir |-> "", text_edit |-> NoText, button_finish |-> FALSE,
     translator |-> <<>>]

Signal(sig, a, b) == [sig |-> sig, a |-> a, b |-> b]

\* MainWindow.__init__, before any user action; every video exists
InitPipe ==
    /\ fs = [v \in Videos |-> VideoFile]
    /\ video_path = ""
    /\ save_dir = DefaultSaveDir
    /\ button_process = TRUE
    /\ mainVisible = TRUE
    /\ proc = NoThreadP
    /\ sigQ = <<>>
    /\ preview = NoPreview
    /\ guiPc = "idle"
    /\ burn = NoThreadB
    /\ app = "running"
    /\ stage = "Idle"
    /\ failed = ""
    /\ errors = 0
    /\ successes = 0
    /\ job = 0

Init ==
    /\ InitPipe
    /\ fmtIn = 0
    /\ fmtOut = ""

\* the GUI thread is in its event loop
Gui == app = "running" /\ guiPc = "idle"

\* an exception leaves a slot: PyQt either aborts the process or prints the
\* traceback and returns to the event loop, by version
SlotRaised == {"running", "aborted"}

-----------------------------------------------------------------------------
(* MainWindow *)

select_video(v) ==
    /\ Gui /\ mainVisible
    /\ Exists(fs, v)
    /\ video_path' = v
    /\ UNCHANGED <<fs, save_dir, button_process, mainVisible, proc, sigQ, preview,
                   guiPc, burn, app, stage, failed, errors, successes, job, fmtVars>>

select_folder(d) ==
    /\ Gui /\ mainVisible
    /\ save_dir' = d
    /\ UNCHANGED <<fs, video_path, button_process, mainVisible, proc, sigQ, preview,
                   guiPc, burn, app, stage, failed, errors, successes, job, fmtVars>>

validate_inputs == video_path # "" /\ save_dir # ""

\* start_processing without button_process.setEnabled(False)
start_processing_button_left_enabled ==
    /\ Gui /\ mainVisible /\ button_process
    /\ proc.n < MaxRuns
    /\ IF validate_inputs
       THEN /\ proc' = [NoThreadP EXCEPT !.pc = "ctor", !.n = proc.n + 1,
                                         !.video = video_path, !.dir = save_dir]
            /\ stage' = "Extracting"
            /\ failed' = ""
            /\ errors' = 0
            /\ successes' = 0
            /\ job' = job + 1
       ELSE UNCHANGED <<proc, stage, failed, errors, successes, job>>
    /\ UNCHANGED <<fs, video_path, save_dir, button_process, mainVisible, sigQ,
                   preview, guiPc, burn, app, fmtVars>>

start_processing ==
    /\ Gui /\ mainVisible /\ button_process
    /\ proc.n < MaxRuns
    /\ IF validate_inputs
       THEN /\ button_process' = FALSE
            /\ proc' = [NoThreadP EXCEPT !.pc = "ctor", !.n = proc.n + 1,
                                         !.video = video_path, !.dir = save_dir]
            /\ stage' = "Extracting"
            /\ failed' = ""
            /\ errors' = 0
            /\ successes' = 0
            /\ job' = job + 1
       ELSE UNCHANGED <<button_process, proc, stage, failed, errors, successes, job>>
    /\ UNCHANGED <<fs, video_path, save_dir, mainVisible, sigQ, preview, guiPc,
                   burn, app, fmtVars>>

-----------------------------------------------------------------------------
(* ProcessVideo, on the run_processing thread *)

\* a constructor that does not check the video path
video_exits_never_raises(f, video) == FALSE

\* ProcessVideo._video_exits: TRUE when it raises FileNotFoundError
video_exits_raises(f, video) == ~Exists(f, video)

\* _cleanup without its second test and removal
cleanup_srt_only(f, video, video_dir) ==
    LET srt_file == SrtFile(video, video_dir)
    IN  IF Exists(f, srt_file) THEN OsRemove(f, srt_file) ELSE f

\* os.remove(p) raises FileNotFoundError when p does not exist
OsRemoveRaises(f, p) == ~Exists(f, p)

\* ProcessVideo._cleanup: TRUE when one of its two os.remove calls raises; each
\* call is made only under "if os.path.exists"
cleanup_raises(f, video, video_dir) ==
    LET srt_file == SrtFile(video, video_dir)
        wav_file == WavFile(video, video_dir)
        f1 == IF Exists(f, srt_file) THEN OsRemove(f, srt_file) ELSE f
    IN  \/ Exists(f, srt_file) /\ OsRemoveRaises(f, srt_file)
        \/ Exists(f1, wav_file) /\ OsRemoveRaises(f1, wav_file)

\* ProcessVideo._cleanup
cleanup(f, video, video_dir) ==
    LET srt_file == SrtFile(video, video_dir)
        wav_file == WavFile(video, video_dir)
        f1 == IF Exists(f, srt_file) THEN OsRemove(f, srt_file) ELSE f
    IN  IF Exists(f1, wav_file) THEN OsRemove(f1, wav_file) ELSE f1

\* _save_srt creating no file when there is no cue to write
save_srt_skips_empty(f, video, video_dir, subtitles) ==
    IF subtitles = <<>> THEN f
    ELSE WriteFile(f, SrtFile(video, video_dir), File("srt", subtitles, "fr", FALSE))

\* _save_srt writing next to the video instead of into self.video_dir
save_srt_beside_video(f, video, video_dir, subtitles) ==
    WriteFile(f, SubSeq(video, 1, Len(video) - 4) \o ".srt",
              File("srt", subtitles, "fr", FALSE))

\* ProcessVideo._save_srt: the file written for the cue list
save_srt(f, video, video_dir, subtitles) ==
    WriteFile(f, SrtFile(video, video_dir), File("srt", subtitles, "fr", FALSE))

\* run_processing's except clause: the thread ends with error.emit(str(e))
run_processing_except(at) ==
    /\ sigQ' = Append(sigQ, Signal("error", "error", ""))
    /\ stage' = "Error"
    /\ failed' = at

\* run_processing: ProcessVideo(video_path, None, save_dir)
run_processing_init ==
    /\ app = "running" /\ proc.pc = "ctor"
    /\ IF video_exits_raises(fs, proc.video)
       THEN /\ proc' = [proc EXCEPT !.pc = "ended", !.missing = ~Exists(fs, proc.video)]
            /\ run_processing_except("Extracting")
       ELSE /\ proc' = [proc EXCEPT !.pc = "extract", !.missing = ~Exists(fs, proc.video)]
            /\ UNCHANGED <<sigQ, stage, failed>>
    /\ UNCHANGED <<fs, video_path, save_dir, button_process, mainVisible, preview,
                   guiPc, burn, app, errors, successes, job, fmtVars>>

\* run_processing: videoProcess.extract_audio(); the transcoder succeeds only on
\* an existing video
extract_audio ==
    /\ app = "running" /\ proc.pc = "extract"
    /\ LET wav == WavFile(proc.video, proc.dir)
       IN  \E ok \in BOOLEAN :
             /\ ok => Exists(fs, proc.video)
             /\ IF ok
                THEN /\ fs' = WriteFile(fs, wav, WavData)
                     /\ proc' = [proc EXCEPT !.pc = "open",
                                             !.invoked = @ \cup {"extract"}]
                     /\ stage' = "Transcribing"
                     /\ UNCHANGED <<sigQ, failed>>
                ELSE /\ fs' = fs
                     /\ proc' = [proc EXCEPT !.pc = "ended",
                                             !.invoked = @ \cup {"extract"}]
                     /\ run_processing_except("Extracting")
    /\ UNCHANGED <<video_path, save_dir, button_process, mainVisible, preview,
                   guiPc, burn, app, errors, successes, job, fmtVars>>

\* retrieve_text, lines 97-103: Model(), KaldiRecognizer(), wave.open(); any of
\* them may raise, and wave.open does when the file is missing
retrieve_text_open ==
    /\ app = "running" /\ proc.pc = "open"
    /\ \E ok \in BOOLEAN :
         /\ ok => Exists(fs, WavFile(proc.video, proc.dir))
         /\ IF ok
            THEN /\ proc' = [proc EXCEPT !.pc = "loop", !.subtitles = <<>>,
                                         !.subtitles_index = 1,
                                         !.invoked = @ \cup {"recognizer"}]
                 /\ UNCHANGED <<sigQ, stage, failed>>
            ELSE /\ proc' = [proc EXCEPT !.pc = "ended",
                                         !.invoked = @ \cup {"recognizer"}]
                 /\ run_processing_except("Transcribing")
    /\ UNCHANGED <<fs, video_path, save_dir, button_process, mainVisible, preview,
                   guiPc, burn, app, errors, successes, job, fmtVars>>

\* retrieve_text, lines 105-117: one non-empty read and the recognizer's answer
\* to it, drawn from results[number of the read]; the audio has at most maxReads
\* chunks
retrieve_text_chunk(results, maxReads) ==
    /\ app = "running" /\ proc.pc = "loop"
    /\ proc.reads < maxReads
    /\ \E answer \in results[proc.reads] :
         LET r  == Recognize(proc.pending, answer)
             st == AcceptWaveformStep([subtitles |-> proc.subtitles,
                                       subtitles_index |-> proc.subtitles_index], r)
         IN  proc' = [proc EXCEPT !.subtitles = st.subtitles,
                                  !.subtitles_index = st.subtitles_index,
                                  !.heard = IF r.final THEN Append(@, r) ELSE @,
                                  !.reads = @ + 1,
                                  !.pending = Pending(proc.pending, answer)]
    /\ UNCHANGED <<fs, video_path, save_dir, button_process, mainVisible, sigQ,
                   preview, guiPc, burn, app, stage, failed, errors, successes,
                   job, fmtVars>>

\* retrieve_text calling _cleanup when the read or the recognizer raises
retrieve_text_raise_cleans_up ==
    /\ app = "running" /\ proc.pc = "loop"
    /\ proc' = [proc EXCEPT !.pc = "ended", !.subtitles = <<>>,
                             !.subtitles_index = 1, !.heard = <<>>, !.reads = 0,
                             !.pending = <<>>]
    /\ run_processing_except("Transcribing")
    /\ fs' = cleanup(fs, proc.video, proc.dir)
    /\ UNCHANGED <<video_path, save_dir, button_process, mainVisible, preview,
                   guiPc, burn, app, errors, successes, job, fmtVars>>

\* retrieve_text, lines 105-109: the read or the recognizer's output raises
retrieve_text_raise ==
    /\ app = "running" /\ proc.pc = "loop"
    /\ proc' = [proc EXCEPT !.pc = "ended", !.subtitles = <<>>,
                             !.subtitles_index = 1, !.heard = <<>>, !.reads = 0,
                             !.pending = <<>>]
    /\ run_processing_except("Transcribing")
    /\ UNCHANGED <<fs, video_path, save_dir, button_process, mainVisible, preview,
                   guiPc, burn, app, errors, successes, job, fmtVars>>

\* retrieve_text, lines 106-107 and 118-119, then run_processing line 246: the
\* zero-length read, os.remove(wav_file), _save_srt, finished.emit(srt_path)
retrieve_text_finish ==
    /\ app = "running" /\ proc.pc = "loop"
    /\ LET wav == WavFile(proc.video, proc.dir)
       IN  IF Exists(fs, wav)
           THEN /\ fs' = save_srt(OsRemove(fs, wav), proc.video, proc.dir,
                                  proc.subtitles)
                /\ sigQ' = Append(sigQ, Signal("finished",
                                               SrtFile(proc.video, proc.dir), ""))
                /\ UNCHANGED <<stage, failed>>
           ELSE /\ fs' = fs
                /\ run_processing_except("Transcribing")
    /\ proc' = [proc EXCEPT !.pc = "ended", !.subtitles = <<>>,
                             !.subtitles_index = 1, !.heard = <<>>, !.reads = 0,
                             !.pending = <<>>]
    /\ UNCHANGED <<video_path, save_dir, button_process, mainVisible, preview,
                   guiPc, burn, app, errors, successes, job, fmtVars>>

\* MainWindow.on_processing_finished(srt_path); PreviewWindow.initUI reads the
\* subtitle file into text_edit
on_processing_finished ==
    /\ Gui
    /\ sigQ # <<>> /\ Head(sigQ).sig = "finished"
    /\ sigQ' = Tail(sigQ)
    /\ button_process' = TRUE
    /\ IF Exists(fs, Head(sigQ).a)
       THEN /\ preview' = [exists |-> TRUE, visible |-> TRUE,
                           video_path |-> video_path, srt_path |-> Head(sigQ).a,
                           save_dir |-> save_dir,
                           text_edit |-> [fs[Head(sigQ).a] EXCEPT !.kind = "text"],
                           button_finish |-> TRUE, translator |-> <<>>]
            /\ mainVisible' = FALSE
            /\ stage' = "AwaitingEdit"
            /\ app' = app
       ELSE /\ app' \in SlotRaised
            /\ UNCHANGED <<preview, mainVisible, stage>>
    /\ UNCHANGED <<fs, video_path, save_dir, proc, guiPc, burn, failed, errors,
                   successes, job, fmtVars>>

\* MainWindow.on_processing_error(error_msg)
on_processing_error ==
    /\ Gui
    /\ sigQ # <<>> /\ Head(sigQ).sig = "error"
    /\ sigQ' = Tail(sigQ)
    /\ button_process' = TRUE
    /\ errors' = errors + 1
    /\ UNCHANGED <<fs, video_path, save_dir, mainVisible, proc, preview, guiPc,
                   burn, app, stage, failed, successes, job, fmtVars>>

-----------------------------------------------------------------------------
(* PreviewWindow and the run_burning thread *)

\* the user changes the text in text_edit
edit_text ==
    /\ Gui /\ preview.visible
    /\ ~preview.text_edit.edited
    /\ preview' = [preview EXCEPT !.text_edit.edited = TRUE]
    /\ UNCHANGED <<fs, video_path, save_dir, button_process, mainVisible, proc,
                   sigQ, guiPc, burn, app, stage, failed, errors, successes, job,
                   fmtVars>>

\* The application after a window has been closed: when no window is left
\* visible, app.exec_() returns and sys.exit ends the process (line 557), and the
\* threads, being daemon threads (lines 235 and 447), end with it.
LastWindowClosed(windowsLeft) == IF windowsLeft THEN "running" ELSE "quit"

\* PreviewWindow.closeEvent: the user closes the preview window, and the event
\* is accepted
closeEvent ==
    /\ Gui /\ preview.visible
    /\ preview' = [preview EXCEPT !.visible = FALSE]
    /\ app' = LastWindowClosed(mainVisible)
    /\ UNCHANGED <<fs, video_path, save_dir, button_process, mainVisible, proc,
                   sigQ, guiPc, burn, stage, failed, errors, successes, job,
                   fmtVars>>

\* Translator.translate: the text, in English
translate(text) == [text EXCEPT !.lang = "en"]

\* the calls start_burning makes on its Translator, in order (lines 428-429):
\* Translator() and translate(edited_srt)
start_burning_translator_calls == <<"__init__", "translate">>

\* start_burning, lines 425-429: the click on "Finish and Burn", up to the call
\* of translate; a click after a failed burn starts a new job on the same files
start_burning ==
    /\ Gui /\ preview.visible /\ preview.button_finish
    /\ burn.n < MaxBurns
    /\ preview' = [preview EXCEPT !.button_finish = FALSE,
                                  !.translator = @ \o start_burning_translator_calls]
    /\ guiPc' = "translating"
    /\ stage' = "Translating"
    /\ IF stage = "Error"
       THEN /\ job' = job + 1
            /\ failed' = ""
            /\ errors' = 0
            /\ successes' = 0
       ELSE UNCHANGED <<job, failed, errors, successes>>
    /\ UNCHANGED <<fs, video_path, save_dir, button_process, mainVisible, proc,
                   sigQ, burn, app, fmtVars>>

\* start_burning writing edited_srt instead of translated_srt
write_untranslated(f, srt_path, edited_srt) ==
    WriteFile(f, srt_path, [edited_srt EXCEPT !.kind = "srt"])

\* the file start_burning leaves at srt_path: open(self.srt_path, "w").write(...)
write_translated(f, srt_path, edited_srt) ==
    WriteFile(f, srt_path, [translate(edited_srt) EXCEPT !.kind = "srt"])

\* start_burning, lines 429-449: translate returns and the burn thread is
\* started, or translate raises and the exception leaves the slot
start_burning_translated ==
    /\ app = "running" /\ guiPc = "translating"
    /\ guiPc' = "idle"
    /\ \E ok \in BOOLEAN :
         IF ok
         THEN /\ fs' = write_translated(fs, preview.srt_path, preview.text_edit)
              /\ burn' = [NoThreadB EXCEPT
                            !.pc = "ctor", !.n = burn.n + 1,
                            !.video = preview.video_path,
                            !.srt_path = preview.srt_path,
                            !.video_dir = OutputPath(preview.video_path,
                                                     preview.save_dir)]
              /\ stage' = "Burning"
              /\ UNCHANGED <<app, failed>>
         ELSE /\ app' \in SlotRaised
              /\ stage' = "Error"
              /\ failed' = "Translating"
              /\ burn' = [burn EXCEPT !.n = burn.n + 1]
              /\ UNCHANGED fs
    /\ UNCHANGED <<video_path, save_dir, button_process, mainVisible, proc, sigQ,
                   preview, errors, successes, job, fmtVars>>

\* run_burning's except clause: burn_finished.emit(None, str(e))
run_burning_except(msg) ==
    /\ sigQ' = Append(sigQ, Signal("burn_finished", "", msg))
    /\ stage' = "Error"
    /\ failed' = "Burning"

\* run_burning: ProcessVideo(self.video_path, self.srt_path, output_path)
run_burning_init ==
    /\ app = "running" /\ burn.pc = "ctor"
    /\ IF video_exits_raises(fs, burn.video)
       THEN /\ burn' = [burn EXCEPT !.pc = "ended", !.missing = ~Exists(fs, burn.video)]
            /\ run_burning_except("[Errno 2] No such file or directory")
       ELSE /\ burn' = [burn EXCEPT !.pc = "burn", !.missing = ~Exists(fs, burn.video)]
            /\ UNCHANGED <<sigQ, stage, failed>>
    /\ UNCHANGED <<fs, video_path, save_dir, button_process, mainVisible, proc,
                   preview, guiPc, app, errors, successes, job, fmtVars>>

\* the filesystem after a burn_subtitles that does not raise: the transcoder
\* writes output_video_path (self.video_dir), then _cleanup runs
burn_subtitles_ok(f, video, video_dir) ==
    cleanup(WriteFile(f, video_dir, Mp4Out), video, video_dir)

\* run_burning: videoprocess.burn_subtitles() and the emit that follows; the
\* transcoder succeeds only on an existing video and subtitle file, and a failed
\* run may leave a partial output file
burn_subtitles ==
    /\ app = "running" /\ burn.pc = "burn"
    /\ \E ok \in BOOLEAN, partial \in BOOLEAN, msg \in BurnErrors :
         /\ ok => Exists(fs, burn.video) /\ Exists(fs, burn.srt_path)
         /\ ok => ~partial /\ msg = ""
         /\ IF ok
            THEN /\ fs' = burn_subtitles_ok(fs, burn.video, burn.video_dir)
                 /\ sigQ' = Append(sigQ, Signal("burn_finished", burn.video_dir, ""))
                 /\ UNCHANGED <<stage, failed>>
            ELSE /\ fs' = IF partial
                          THEN WriteFile(fs, burn.video_dir,
                                         File("mp4", <<>>, "partial", FALSE))
                          ELSE fs
                 /\ run_burning_except(msg)
         /\ burn' = [burn EXCEPT !.pc = "ended", !.ok = ok,
                                 !.invoked = @ \cup {"burn"}]
    /\ UNCHANGED <<video_path, save_dir, button_process, mainVisible, proc,
                   preview, guiPc, app, errors, successes, job, fmtVars>>

\* on_burn_finished without its last line, the subtitle file left to _cleanup
on_burn_finished_keeps_srt(f, srt_path) == f

\* the filesystem after on_burn_finished's last line, os.remove(self.srt_path)
on_burn_finished_remove(f, srt_path) == OsRemove(f, srt_path)

\* PreviewWindow.on_burn_finished(output_path, error)
on_burn_finished ==
    /\ Gui
    /\ sigQ # <<>> /\ Head(sigQ).sig = "burn_finished"
    /\ sigQ' = Tail(sigQ)
    /\ IF Head(sigQ).b # ""
       THEN /\ errors' = errors + 1
            /\ preview' = [preview EXCEPT !.button_finish = TRUE]
            /\ UNCHANGED <<successes, mainVisible>>
       ELSE /\ successes' = successes + 1
            /\ preview' = [preview EXCEPT !.button_finish = TRUE, !.visible = FALSE]
            /\ mainVisible' = TRUE
            /\ errors' = errors
    /\ IF Exists(fs, preview.srt_path)
       THEN /\ fs' = on_burn_finished_remove(fs, preview.srt_path)
            /\ app' = app
       ELSE /\ fs' = fs
            /\ app' \in SlotRaised
    /\ stage' = IF stage = "Burning" THEN "Done" ELSE stage
    /\ UNCHANGED <<video_path, save_dir, button_process, proc, guiPc, burn,
                   failed, job, fmtVars>>

-----------------------------------------------------------------------------
(* Environment *)

\* the source video is deleted or moved away by the user or another program
delete_video(v) ==
    /\ app = "running"
    /\ v \in Videos /\ Exists(fs, v)
    /\ fs' = OsRemove(fs, v)
    /\ UNCHANGED <<video_path, save_dir, button_process, mainVisible, proc, sigQ,
                   preview, guiPc, burn, app, stage, failed, errors, successes,
                   job, fmtVars>>

-----------------------------------------------------------------------------
(* The pipeline *)

Next ==
    \/ \E v \in Videos : select_video(v)
    \/ \E d \in Dirs : select_folder(d)
    \/ start_processing
    \/ run_processing_init
    \/ extract_audio
    \/ retrieve_text_open
    \/ retrieve_text_chunk(PipeResults, PipeChunks)
    \/ retrieve_text_raise
    \/ retrieve_text_finish
    \/ on_processing_finished
    \/ on_processing_error
    \/ edit_text
    \/ closeEvent
    \/ start_burning
    \/ start_burning_translated
    \/ run_burning_init
    \/ burn_subtitles
    \/ on_burn_finished
    \/ \E v \in Videos : delete_video(v)

Spec == Init /\ [][Next]_vars

-----------------------------------------------------------------------------
(* retrieve_text on its own: the thread of the first job, extraction done *)

FirstVideo == "/v/a.mp4"

InitT ==
    /\ fs = WriteFile([v \in Videos |-> VideoFile],
                      WavFile(FirstVideo, DefaultSaveDir), WavData)
    /\ video_path = FirstVideo
    /\ save_dir = DefaultSaveDir
    /\ button_process = FALSE
    /\ mainVisible = TRUE
    /\ proc = [NoThreadP EXCEPT !.pc = "open", !.n = 1, !.video = FirstVideo,
                                !.dir = DefaultSaveDir, !.invoked = {"extract"}]
    /\ sigQ = <<>>
    /\ preview = NoPreview
    /\ guiPc = "idle"
    /\ burn = NoThreadB
    /\ app = "running"
    /\ stage = "Transcribing"
    /\ failed = ""
    /\ errors = 0
    /\ successes = 0
    /\ job = 1
    /\ fmtIn = 0
    /\ fmtOut = ""

NextT ==
    \/ retrieve_text_open
    \/ retrieve_text_chunk(AllResults, MaxChunks)
    \/ retrieve_text_raise
    \/ retrieve_text_finish

SpecT == InitT /\ [][NextT]_vars

-----------------------------------------------------------------------------
(* _cleanup on its own: a ProcessVideo job and two calls of its _cleanup *)

\* the directories the job can have as video_dir: the save directory and the
\* video's own directory
CleanupDirs == {DefaultSaveDir, "/v"}

\* the files that may or may not exist next to the videos when _cleanup is
\* called on a job with directory d: the .srt and .wav of every video in d, and
\* the output files
CleanupFiles(d) ==
    {SrtFile(v, d) : v \in Videos} \cup {WavFile(v, d) : v \in Videos}
    \cup {OutputPath(v, DefaultSaveDir) : v \in Videos}

\* a file found at path p
FoundFile(p) ==
    LET ext == SubSeq(p, Len(p) - 3, Len(p))
    IN  IF ext = ".srt" THEN File("srt", <<>>, "fr", FALSE)
        ELSE IF ext = ".wav" THEN WavData
        ELSE IF p \in Videos THEN VideoFile
        ELSE Mp4Out

InitC ==
    /\ \E v \in Videos, d \in CleanupDirs :
         /\ burn = [NoThreadB EXCEPT !.pc = "cleanup", !.n = 1, !.video = v,
                                     !.video_dir = d]
         /\ \E present \in SUBSET CleanupFiles(d) :
              fs = [p \in Videos \cup present |-> FoundFile(p)]
    /\ video_path = ""
    /\ save_dir = DefaultSaveDir
    /\ button_process = TRUE
    /\ mainVisible = TRUE
    /\ proc = NoThreadP
    /\ sigQ = <<>>
    /\ preview = NoPreview
    /\ guiPc = "idle"
    /\ app = "running"
    /\ stage = "Idle"
    /\ failed = ""
    /\ errors = 0
    /\ successes = 0
    /\ job = 0
    /\ fmtIn = 0
    /\ fmtOut = ""

\* the call self._cleanup(), a first and a second time
cleanup_call ==
    /\ burn.pc \in {"cleanup", "cleaned"}
    /\ IF cleanup_raises(fs, burn.video, burn.video_dir)
       THEN /\ burn' = [burn EXCEPT !.pc = "raised"]
            /\ fs' = fs
       ELSE /\ burn' = [burn EXCEPT !.pc = IF burn.pc = "cleanup" THEN "cleaned"
                                           ELSE "cleaned twice"]
            /\ fs' = cleanup(fs, burn.video, burn.video_dir)
    /\ UNCHANGED <<video_path, save_dir, button_process, mainVisible, proc, sigQ,
                   preview, guiPc, app, stage, failed, errors, successes, job,
                   fmtVars>>

NextC == cleanup_call

SpecC == InitC /\ [][NextC]_vars

-----------------------------------------------------------------------------
(* _format_timestamp on its own *)

\* whole seconds of the arguments tried: around a minute, an hour, and the
\* spec's example 3661
FmtSeconds == {0, 59, 3599, 3661}

FmtInputs == {s * 10000 + f : s \in FmtSeconds, f \in 0..MaxFrac}

InitF ==
    /\ InitPipe
    /\ fmtIn \in FmtInputs
    /\ fmtOut = ""

\* the call self._format_timestamp(fmtIn)
format_timestamp ==
    /\ fmtOut = ""
    /\ \E tieUp \in BOOLEAN : fmtOut' = FormatTimestamp(fmtIn, tieUp)
    /\ UNCHANGED <<pipeVars, fmtIn>>

NextF == format_timestamp

SpecF == InitF /\ [][NextF]_vars

-----------------------------------------------------------------------------
(* Claims about the pipeline (Spec) *)

\* no thread is running, no signal is pending and no handler is in progress
Quiescent ==
    /\ proc.pc \in {"idle", "ended"}
    /\ burn.pc \in {"idle", "ended"}
    /\ sigQ = <<>>
    /\ guiPc = "idle"

\* C1: once every stage has succeeded and on_burn_finished has handled the
\* burn's completion, the job's working .wav and .srt do not exist, and the
\* output file {stem}_subtitled{ext} exists, complete, in the output directory.
C1_WorkingFilesGoneOutputPresent ==
    stage = "Done" =>
        /\ ~Exists(fs, WavFile(proc.video, proc.dir))
        /\ ~Exists(fs, SrtFile(proc.video, proc.dir))
        /\ ~Exists(fs, preview.srt_path)
        /\ LET out == PathJoin(preview.save_dir,
                               PathStem(preview.video_path) \o "_subtitled"
                               \o PathSuffix(preview.video_path))
           IN  Exists(fs, out) /\ fs[out] = Mp4Out

C1_Witness ==
    stage = "Done" /\ successes = 1 /\ burn.ok /\ Quiescent

\* C2: after a burn whose transcoder raised and whose failure has been shown to
\* the user, the .srt that was passed to the burner still exists.
C2_SrtKeptAfterFailedBurn ==
    (/\ failed = "Burning" /\ burn.pc = "ended" /\ "burn" \in burn.invoked
     /\ ~burn.ok /\ errors = 1 /\ Quiescent)
    => Exists(fs, burn.srt_path)

\* C7: once a stage of a job has failed, no later stage of that job runs (the
\* job stays in Error), and when the job has come to rest the user has been
\* shown exactly one error message and no success message.
C7_FailureShownOnce ==
    /\ failed # "" => stage = "Error"
    /\ errors <= 1
    /\ (failed # "" /\ Quiescent) => errors = 1 /\ successes = 0

\* C8: a ProcessVideo constructed on a video path that does not exist raises in
\* the constructor, and that job invokes neither transcoder call nor the
\* recognizer.
C8_MissingVideoInvokesNothing ==
    /\ proc.missing => proc.pc = "ended" /\ proc.invoked = {}
    /\ burn.missing => burn.pc = "ended" /\ burn.invoked = {}

C8_Witness ==
    proc.missing /\ proc.pc = "ended" /\ errors = 1

\* C10: when burn_subtitles has returned without raising, the .srt that was
\* burned and the job's working .wav are gone.
C10_BurnCleanupRemovesWorkingFiles ==
    (burn.pc = "ended" /\ burn.ok) =>
        /\ ~Exists(fs, burn.srt_path)
        /\ ~Exists(fs, WavFile(proc.video, proc.dir))


\* the stage changes of one job: the order of section 4.7, and Error from each
\* processing stage
StageSteps ==
    {<<"Idle", "Extracting">>, <<"Extracting", "Transcribing">>,
     <<"Transcribing", "AwaitingEdit">>, <<"AwaitingEdit", "Translating">>,
     <<"Translating", "Burning">>, <<"Burning", "Done">>}
    \cup {<<st, "Error">> : st \in {"Extracting", "Transcribing", "Translating",
                                    "Burning"}}

\* C9: within a job the stage only moves one step along Extracting,
\* Transcribing, AwaitingEdit, Translating, Burning, Done, or from a processing
\* stage to Error; a new job begins at Extracting after Idle, Done or Error, or,
\* by a click on "Finish and Burn" after a failed burn, at Translating. Burning
\* starts only with the subtitle file that transcription wrote holding the
\* translated text, and Translating starts only by the user's click.
C9_StagesInOrder ==
    [][stage' # stage =>
         /\ \/ job' = job /\ <<stage, stage'>> \in StageSteps
            \/ /\ job' = job + 1
               /\ stage \in {"Idle", "Done", "Error"}
               /\ stage' = "Extracting"
            \/ /\ job' = job + 1
               /\ stage = "Error" /\ failed = "Burning"
               /\ stage' = "Translating"
         /\ stage' = "Burning" =>
              /\ proc.pc = "ended"
              /\ preview.srt_path = SrtFile(proc.video, proc.dir)
              /\ Exists(fs', preview.srt_path)
              /\ fs'[preview.srt_path].kind = "srt"
              /\ fs'[preview.srt_path].lang = "en"
         /\ stage' = "Translating" =>
              /\ guiPc = "idle" /\ guiPc' = "translating"
              /\ preview.visible /\ preview.button_finish
    ]_vars

C9_Witness ==
    stage = "Done" /\ job = 2 /\ burn.n = 2

\* the run_processing thread is running, or its finished / error signal has not
\* been handled yet
ProcessingInFlight ==
    \/ proc.pc \in {"ctor", "extract", "open", "loop"}
    \/ \E i \in 1..Len(sigQ) : sigQ[i].sig \in {"finished", "error"}

\* the run_burning thread is running, or its burn_finished signal has not been
\* handled yet
BurnInFlight ==
    \/ burn.pc \in {"ctor", "burn"}
    \/ \E i \in 1..Len(sigQ) : sigQ[i].sig = "burn_finished"

\* C11: a run_processing thread is started only while no extraction +
\* transcription run is in flight, and the user's click on "Finish and Burn" and
\* the start of the run_burning thread happen only while no burn run is in
\* flight: the previous run's finished, error or burn_finished signal has been
\* handled before the next run starts. While a run is in flight the button that
\* starts such a run is disabled.
C11_OneRunAtATime ==
    [][/\ proc'.n # proc.n => ~ProcessingInFlight
       /\ (guiPc = "idle" /\ guiPc' = "translating") => ~BurnInFlight
       /\ (burn'.pc = "ctor" /\ burn.pc # "ctor") => ~BurnInFlight
       /\ ProcessingInFlight' => ~button_process'
       /\ BurnInFlight' => ~preview'.button_finish
    ]_vars

C11_Witness ==
    /\ proc.n = 2 /\ proc.pc = "ended"
    /\ burn.n = 2 /\ burn.pc = "burn"

\* retrieve_text has returned and its finished signal is waiting for the GUI
\* thread
FinishedPending == \E i \in 1..Len(sigQ) : sigQ[i].sig = "finished"

\* C13: from the moment retrieve_text has returned until the user clicks
\* "Finish and Burn", the job's working .wav does not exist and a subtitle file
\* exists at {save_dir}/{base name}.srt, which is the path retrieve_text
\* returned (the argument of the finished signal, then the preview window's
\* srt_path).
C13_AwaitingEditFiles ==
    /\ FinishedPending =>
          /\ ~Exists(fs, WavFile(proc.video, proc.dir))
          /\ Exists(fs, SrtFile(proc.video, proc.dir))
          /\ fs[SrtFile(proc.video, proc.dir)].kind = "srt"
          /\ \A i \in 1..Len(sigQ) :
                sigQ[i].sig = "finished" => sigQ[i].a = SrtFile(proc.video, proc.dir)
    /\ stage = "AwaitingEdit" =>
          /\ ~Exists(fs, WavFile(proc.video, proc.dir))
          /\ preview.srt_path = SrtFile(proc.video, proc.dir)
          /\ Exists(fs, preview.srt_path)
          /\ fs[preview.srt_path].kind = "srt"

C13_Witness ==
    /\ stage = "AwaitingEdit" /\ job = 2
    /\ preview.visible /\ preview.text_edit.edited
    /\ Len(fs[preview.srt_path].body) = 1

\* C14: from the start of the burn thread until its outcome has been handled by
\* on_burn_finished, no action of the user ends the thread: the application,
\* and the burn thread with it, is still running.
C14_BurnNotInterrupted ==
    BurnInFlight => app # "quit"

\* C17: while a job's transcription has failed (after a successful extraction),
\* the job's working .wav exists, no subtitle file exists at the job's .srt path
\* and no finished signal has been emitted; this holds when the error is
\* reported and for as long as the job is the current one. The only step that
\* ever removes a .wav is the end of a transcription that did not fail, on the
\* .wav that this same run extracted: no error handler, no _cleanup and no
\* burn removes a .wav.
C17_WavLeftAfterFailedTranscription ==
    [][/\ failed' = "Transcribing" =>
            /\ Exists(fs', WavFile(proc'.video, proc'.dir))
            /\ ~Exists(fs', SrtFile(proc'.video, proc'.dir))
            /\ ~FinishedPending'
       /\ \A p \in DOMAIN fs :
            (fs[p].kind = "wav" /\ p \notin DOMAIN fs') =>
                /\ proc.pc = "loop" /\ proc'.pc = "ended"
                /\ p = WavFile(proc.video, proc.dir)
                /\ failed' = ""
    ]_vars

C17_Witness ==
    /\ failed = "Transcribing" /\ errors = 1 /\ Quiescent
    /\ "recognizer" \in proc.invoked
    /\ Exists(fs, WavFile(proc.video, proc.dir))
    /\ button_process

\* C19: when on_burn_finished handles the outcome of a burn, it shows the
\* success message exactly if burn_subtitles returned without raising; after a
\* burn that raised, whatever the exception's message, it shows an error
\* message, no success message, and leaves the preview window open.
C19_SuccessIffBurnReturned ==
    [][(sigQ # <<>> /\ Head(sigQ).sig = "burn_finished" /\ sigQ' = Tail(sigQ)) =>
         /\ (successes' = successes + 1) <=> burn.ok
         /\ ~burn.ok => /\ errors' = errors + 1
                        /\ successes' = successes
                        /\ preview'.visible = preview.visible
    ]_vars

\* C12: every call of Translator.translate made by the preview window comes
\* after a completed call of Translator.install_packages.
C12_InstallBeforeTranslate ==
    \A i \in 1..Len(preview.translator) :
        preview.translator[i] = "translate"
        => \E j \in 1..(i - 1) : preview.translator[j] = "install_packages"

-----------------------------------------------------------------------------
(* Claims about retrieve_text (SpecT) *)

\* a finalized segment that carries a non-empty word list
HasWords(r) == r.hasResult /\ Len(r.words) > 0

\* a finalized segment with a word above the threshold of 0.6
HasConfidentWord(r) ==
    \E j \in 1..Len(r.words) : r.words[j].conf > 60

\* C3: the number of cues emitted equals the number of finalized groups that
\* have at least one word whose confidence exceeds the threshold.
C3_CuesAreGroupsWithConfidentWord ==
    proc.pc = "loop" =>
        Len(proc.subtitles)
          = Cardinality({i \in 1..Len(proc.heard) : HasConfidentWord(proc.heard[i])})

\* C4: at every point of the transcription the cues emitted so far carry the
\* indices 1, 2, ..., n in order, the next index is n + 1, and n counts the
\* finalized segments with a non-empty word list: a segment with an empty word
\* list or without one adds no cue and consumes no index. The file written at
\* the end carries the same indices.
C4_IndicesContiguous ==
    /\ proc.pc = "loop" =>
         /\ \A i \in 1..Len(proc.subtitles) : proc.subtitles[i].index = i
         /\ proc.subtitles_index = Len(proc.subtitles) + 1
         /\ Len(proc.subtitles)
              = Cardinality({i \in 1..Len(proc.heard) : HasWords(proc.heard[i])})
    /\ \A p \in DOMAIN fs :
         fs[p].kind = "srt" => \A i \in 1..Len(fs[p].body) : fs[p].body[i].index = i

C4_Witness ==
    /\ proc.pc = "loop"
    /\ Len(proc.heard) = 3
    /\ HasWords(proc.heard[1]) /\ ~HasWords(proc.heard[2]) /\ HasWords(proc.heard[3])
    /\ Len(proc.subtitles) = 2

RECURSIVE ConfidentText(_)
\* the words of a group whose confidence is above 0.6, in order, separated by
\* one space
ConfidentText(words) ==
    IF Len(words) = 0 THEN ""
    ELSE LET rest == ConfidentText(Tail(words))
         IN  IF Head(words).conf <= 60 THEN rest
             ELSE IF rest = "" THEN Head(words).word
             ELSE Head(words).word \o " " \o rest

\* C5: the text of every emitted cue is the words of its group with confidence
\* strictly above 0.6, in recognition order, joined by single spaces; the
\* group with confidences 0.9, 0.5, 0.7 gives "un trois".
C5_TextIsWordsAboveThreshold ==
    proc.pc = "loop" =>
        LET groups == SelectSeq(proc.heard, HasWords)
        IN  /\ Len(groups) = Len(proc.subtitles)
            /\ \A i \in 1..Len(proc.subtitles) :
                 /\ proc.subtitles[i].text = ConfidentText(groups[i].words)
                 /\ (\A j \in 1..Len(groups[i].words) :
                        groups[i].words[j].conf = 60)
                    => proc.subtitles[i].text = ""

C5_Witness ==
    /\ proc.pc = "loop"
    /\ Len(proc.subtitles) = 2
    /\ proc.subtitles[1].text = "un trois"
    /\ proc.heard[2].words = GroupAtThreshold(ChunkStart(1))
    /\ proc.subtitles[2].text = ""

\* C18: a step of the chunk loop leaves the list of cues as it is or appends one
\* cue at its end, every cue emitted before staying where and what it was; the
\* file written at the end holds the cues of the list, in its order.
C18_CuesAppendOnly ==
    [][/\ (proc.pc = "loop" /\ proc'.pc = "loop") =>
            \/ proc'.subtitles = proc.subtitles
            \/ /\ Len(proc'.subtitles) = Len(proc.subtitles) + 1
               /\ SubSeq(proc'.subtitles, 1, Len(proc.subtitles)) = proc.subtitles
       /\ (proc.pc = "loop" /\ proc'.pc = "ended" /\ failed' = "") =>
            fs'[SrtFile(proc.video, proc.dir)].body = proc.subtitles
    ]_vars

C18_Witness ==
    /\ proc.pc = "loop" /\ proc.reads = 3
    /\ Len(proc.subtitles) = 3
    /\ proc.subtitles[1].text = "un trois"
    /\ proc.subtitles[2].text = ""
    /\ proc.subtitles[3].text = "un deux"

\* C20: when the zero-length read ends a transcription, the subtitle file holds
\* one cue for every group of words the recognizer has recognized: the
\* finalized segments with words, and also the words the recognizer still held
\* back, which make the last cue.
C20_PendingWordsWritten ==
    [][(proc.pc = "loop" /\ proc'.pc = "ended" /\ failed' = "") =>
         LET body == fs'[SrtFile(proc.video, proc.dir)].body
             finalized == Cardinality({i \in 1..Len(proc.heard) :
                                          HasWords(proc.heard[i])})
         IN  IF proc.pending = <<>>
             THEN Len(body) = finalized
             ELSE /\ Len(body) = finalized + 1
                  /\ body[Len(body)].end
                       = FormatTimestamp(proc.pending[Len(proc.pending)].end, FALSE)
    ]_vars

\* C15: when the first read of the WAV returns no data, retrieve_text ends
\* without an error: the finished signal is emitted with the subtitle path, the
\* subtitle file exists and holds no cue, and the WAV is deleted.
C15_ZeroLengthWav ==
    [][(proc.pc = "loop" /\ proc.reads = 0 /\ retrieve_text_finish) =>
         LET srt == SrtFile(proc.video, proc.dir)
         IN  /\ failed' = "" /\ stage' # "Error"
             /\ sigQ' = Append(sigQ, Signal("finished", srt, ""))
             /\ Exists(fs', srt)
             /\ fs'[srt].kind = "srt" /\ fs'[srt].body = <<>>
             /\ ~Exists(fs', WavFile(proc.video, proc.dir))
             /\ proc'.pc = "ended"
    ]_vars

C15_Witness ==
    /\ proc.pc = "ended" /\ failed = ""
    /\ sigQ = <<Signal("finished", SrtFile(FirstVideo, DefaultSaveDir), "")>>
    /\ fs[SrtFile(FirstVideo, DefaultSaveDir)].body = <<>>
    /\ ~Exists(fs, WavFile(FirstVideo, DefaultSaveDir))

-----------------------------------------------------------------------------
(* Claims about _cleanup (SpecC) *)

\* C16: whichever of the job's .srt and .wav exist, a call of _cleanup raises
\* no error, leaves both absent and leaves every other file as it was, and a
\* second call changes nothing.
C16_CleanupIdempotent ==
    [][burn'.pc # burn.pc =>
         LET srt == SrtFile(burn.video, burn.video_dir)
             wav == WavFile(burn.video, burn.video_dir)
         IN  /\ burn'.pc # "raised"
             /\ ~Exists(fs', srt) /\ ~Exists(fs', wav)
             /\ DOMAIN fs' = DOMAIN fs \ {srt, wav}
             /\ \A p \in DOMAIN fs' : fs'[p] = fs[p]
             /\ burn.pc = "cleaned" => fs' = fs
    ]_vars

C16_Witness ==
    /\ burn.pc = "cleaned twice"
    /\ burn.video = FirstVideo /\ burn.video_dir = DefaultSaveDir
    /\ ~Exists(fs, SrtFile(FirstVideo, DefaultSaveDir))
    /\ ~Exists(fs, WavFile(FirstVideo, DefaultSaveDir))
    /\ Exists(fs, SrtFile("/v/b.mp4", DefaultSaveDir))
    /\ Exists(fs, WavFile("/v/b.mp4", DefaultSaveDir))
    /\ Exists(fs, OutputPath(FirstVideo, DefaultSaveDir))

-----------------------------------------------------------------------------
(* Claims about _format_timestamp (SpecF) *)

\* C6: the millisecond field is the argument truncated to milliseconds,
\* floor(seconds * 1000) mod 1000, after hours = seconds div 3600, minutes =
\* (seconds mod 3600) div 60 and the whole seconds of the minute.
C6_MillisecondsTruncated ==
    fmtOut # "" =>
        fmtOut = FormatInt(fmtIn \div 36000000, 2) \o ":"
                 \o FormatInt((fmtIn % 36000000) \div 600000, 2) \o ":"
                 \o FormatInt((fmtIn % 600000) \div 10000, 2) \o ","
                 \o FormatInt((fmtIn \div 10) % 1000, 3)

\* the two-digit renderings of 0..59
TwoDigitsBelow60 == {FormatInt(n, 2) : n \in 0..59}

\* C21: the string produced for any argument is HH:MM:SS,mmm with a minutes
\* field in 00..59, a seconds field in 00..59 and a comma followed by exactly
\* three digits; the seconds field is never 60.
C21_FieldsInRange ==
    fmtOut # "" =>
        /\ Len(fmtOut) = 12
        /\ SubSeq(fmtOut, 3, 3) = ":" /\ SubSeq(fmtOut, 6, 6) = ":"
        /\ SubSeq(fmtOut, 9, 9) = ","
        /\ SubSeq(fmtOut, 4, 5) \in TwoDigitsBelow60
        /\ SubSeq(fmtOut, 7, 8) \in TwoDigitsBelow60
        /\ SubSeq(fmtOut, 10, 12) \in {FormatInt(n, 3) : n \in 0..999}

\* the two renderings the spec gives: format(0) and format(3661.1234)
C6_Examples ==
    /\ (fmtIn = 0 /\ fmtOut # "") => fmtOut = "00:00:00,000"
    /\ (fmtIn = 36611234 /\ fmtOut # "") => fmtOut = "01:01:01,123"

====
